---------------------------- MODULE Spec2Model ----------------------------
(***************************************************************************)
(* LUTInterpolator (src/lut_interpolator.py): the bias-plane store         *)
(* (_append_data, build_interpolators), the cross-plane blender            *)
(* (_interp_in_vds, predict, predict_all) and the length inverter          *)
(* (estimate_length_from_gmro).                                            *)
(*                                                                         *)
(* Numbers.  Python floats are modelled as exact rationals [n, d] in       *)
(* lowest terms with d > 0, so rounding error is not modelled.  gm_id,     *)
(* value and the measured gmro are integer-valued floats; length_nm is a   *)
(* rational, because build_interpolators applies int() to it.  A bias      *)
(* (vds) is an integer number of tenths of a volt: the code only compares, *)
(* subtracts and divides biases, which is invariant under that scaling.    *)
(***************************************************************************)
EXTENDS Integers, Sequences, FiniteSets

VARIABLES
    data,      \* self.data:    quantity -> insertion-ordered <<[vds, df]>>
    rbf,       \* self.rbf:     quantity -> [vds -> fitted interpolant]
    lengths,   \* self.lengths: [computed |-> FALSE] is None, else the list
    phase,     \* history: "unbuilt" (no build call yet), "stale" (a record
               \*          since the last build call), "built" (the last
               \*          build call followed a record or was the first),
               \*          "rebuilt" (the last two of the record and build
               \*          calls were both build calls)
    everBuilt, \* history: some build_interpolators call has returned
    nrec,      \* history: the number of _append_data calls made
    last       \* the last call made and what it returned or raised

vars == <<data, rbf, lengths, phase, everBuilt, nrec, last>>

-----------------------------------------------------------------------------
(* Floats as exact rationals *)

Abs(x) == IF x < 0 THEN -x ELSE x

RECURSIVE GCD(_, _)
GCD(a, b) == IF b = 0 THEN a ELSE GCD(b, a % b)

Rat(n, d) ==
    LET s == IF d < 0 THEN -1 ELSE 1
        g == GCD(Abs(n), Abs(d))
    IN  [n |-> (s * n) \div g, d |-> (s * d) \div g]

R(i) == [n |-> i, d |-> 1]

RAdd(a, b) == Rat(a.n * b.d + b.n * a.d, a.d * b.d)
RSub(a, b) == Rat(a.n * b.d - b.n * a.d, a.d * b.d)
RMul(a, b) == Rat(a.n * b.n, a.d * b.d)
RDiv(a, b) == Rat(a.n * b.d, a.d * b.n)
RLe(a, b) == a.n * b.d <= b.n * a.d
RLt(a, b) == a.n * b.d < b.n * a.d
RAbs(a) == [n |-> Abs(a.n), d |-> a.d]

\* int(x): truncation toward zero
IntOf(a) == IF a.n >= 0 THEN a.n \div a.d ELSE -((-a.n) \div a.d)

-----------------------------------------------------------------------------
(* Generic sequence helpers *)

Range(s) == {s[i] : i \in 1..Len(s)}

RECURSIVE SetToSeq(_)
SetToSeq(S) ==
    IF S = {} THEN <<>>
    ELSE LET x == CHOOSE y \in S : TRUE IN <<x>> \o SetToSeq(S \ {x})

\* sorted(): ascending, equal keys kept in their incoming order
RECURSIVE InsertInt(_, _)
InsertInt(s, x) ==
    IF s = <<>> THEN <<x>>
    ELSE IF x < s[Len(s)] THEN InsertInt(SubSeq(s, 1, Len(s) - 1), x) \o <<s[Len(s)]>>
    ELSE s \o <<x>>

RECURSIVE SortedInts(_)
SortedInts(s) ==
    IF s = <<>> THEN <<>>
    ELSE InsertInt(SortedInts(SubSeq(s, 1, Len(s) - 1)), s[Len(s)])

-----------------------------------------------------------------------------
(* The store *)

\* the number of _append_data calls a behaviour makes
MaxRecords == 3

\* self.quantities, in the order build_interpolators and predict_all use
quantities == <<"id_w", "gmro", "ft">>

Quantity == Range(quantities)

NoLengths == [computed |-> FALSE, list |-> <<>>]

Row(g, L, v) == [gm_id |-> g, length_nm |-> L, value |-> v]

\* index of the plane of bias vds in one quantity's dict, 0 when absent
PlaneIndex(planes, vds) ==
    IF \E i \in 1..Len(planes) : planes[i].vds = vds
    THEN CHOOSE i \in 1..Len(planes) : planes[i].vds = vds
    ELSE 0

PlaneKeys(planes) == {planes[i].vds : i \in 1..Len(planes)}

PlaneTable(planes, vds) == planes[PlaneIndex(planes, vds)].df

\* _append_data: a new key is appended to the dict, an existing key gets
\* the concatenation of its table and df
AppendData(d, q, vds, df) ==
    LET planes == d[q]
        i == PlaneIndex(planes, vds)
    IN  IF i = 0
        THEN [d EXCEPT ![q] = Append(planes, [vds |-> vds, df |-> df])]
        ELSE [d EXCEPT ![q] = [planes EXCEPT ![i].df = planes[i].df \o df]]

\* RBFInterpolator(X, y, kernel="thin_plate_spline") needs as many points
\* as the kernel's degree-1 polynomial has monomials in two dimensions
MinFitPoints == 3

\* the three points lie on one line (the cross product of q - p and r - p,
\* cleared of the lengths' denominators, is zero)
Collinear(p, q, r) ==
    (q.gm_id - p.gm_id) * (r.length_nm.n * p.length_nm.d - p.length_nm.n * r.length_nm.d)
        * q.length_nm.d
    = (r.gm_id - p.gm_id) * (q.length_nm.n * p.length_nm.d - p.length_nm.n * q.length_nm.d)
        * r.length_nm.d

\* The RBFInterpolator constructor raises: too few points, or a singular
\* system (a repeated coordinate pair, or all points on one line)
FitFails(df) ==
    \/ Len(df) < MinFitPoints
    \/ \E i, j \in 1..Len(df) :
          /\ i < j
          /\ df[i].gm_id = df[j].gm_id
          /\ df[i].length_nm = df[j].length_nm
    \/ \A k \in 3..Len(df) : Collinear(df[1], df[2], df[k])

\* the (quantity, vds, df) triples in the order the two loops of
\* build_interpolators visit them
RECURSIVE BuildItems(_, _)
BuildItems(d, k) ==
    IF k > Len(quantities) THEN <<>>
    ELSE [i \in 1..Len(d[quantities[k]]) |->
             [q |-> quantities[k],
              vds |-> d[quantities[k]][i].vds,
              df |-> d[quantities[k]][i].df]]
         \o BuildItems(d, k + 1)

\* sorted(int(L) for L in all_lengths), all_lengths the set of distinct
\* length_nm values of the given items
LengthList(items) ==
    LET all_lengths ==
            UNION {{items[i].df[j].length_nm : j \in 1..Len(items[i].df)} :
                   i \in 1..Len(items)}
        asSeq == SetToSeq(all_lengths)
    IN  SortedInts([i \in 1..Len(asSeq) |-> IntOf(asSeq[i])])

\* a list that is extended where it is to be replaced
NewLengthsExtend(list, oldLengths) ==
    IF list # <<>> THEN [computed |-> TRUE, list |-> oldLengths.list \o list]
    ELSE oldLengths

\* if all_lengths: self.lengths = sorted(...); else self.lengths is kept
NewLengths(list, oldLengths) ==
    IF list # <<>> THEN [computed |-> TRUE, list |-> list] ELSE oldLengths

\* build_interpolators: self.rbf is emptied, then filled plane by plane;
\* the first plane whose fit raises ends the call, leaving the interpolants
\* fitted so far and self.lengths as it was
BuildInterpolators(d, oldLengths) ==
    LET items == BuildItems(d, 1)
        bad == {i \in 1..Len(items) : FitFails(items[i].df)}
        stop == IF bad = {} THEN Len(items) + 1
                ELSE CHOOSE i \in bad : \A j \in bad : i <= j
        done == SubSeq(items, 1, stop - 1)
        fitted(q) == {i \in 1..Len(done) : done[i].q = q}
        newRbf == [q \in Quantity |->
                     [v \in {done[i].vds : i \in fitted(q)} |->
                        done[CHOOSE i \in fitted(q) : done[i].vds = v].df]]
        list == LengthList(items)
    IN  [ok |-> bad = {},
         rbf |-> newRbf,
         lengths |-> IF bad = {} THEN NewLengths(list, oldLengths) ELSE oldLengths]

-----------------------------------------------------------------------------
(* The cross-plane blender and the forward predictor *)

Result(status, branch, val) == [status |-> status, branch |-> branch, val |-> val]

Raised(status) == Result(status, "", R(0))

Dist(row, g, L) == RAdd(R(Abs(row.gm_id - g)), RAbs(RSub(row.length_nm, R(L))))

\* float(f(X)) for a fitted interpolant f.  The radial-basis kernel itself
\* is scipy's; it is stood for by a deterministic function of the fitted
\* points and the query point that reproduces a fitted point exactly and
\* elsewhere takes the value of the closest fitted point (the first one
\* among equally close points)
RbfEval(f, g, L) ==
    LET near == CHOOSE i \in 1..Len(f) :
                    /\ \A j \in 1..Len(f) : RLe(Dist(f[i], g, L), Dist(f[j], g, L))
                    /\ \A j \in 1..(i - 1) : RLt(Dist(f[i], g, L), Dist(f[j], g, L))
    IN  R(f[near].value)

\* _available_vds
AvailableVds(r, q) == SortedInts(SetToSeq(DOMAIN r[q]))

\* avail[0], the plane a bias below every plane is clamped to
LowestPlane(avail) == avail[1]

\* avail[0] where avail[-1] is meant
HighestPlaneSlip(avail) == avail[1]

\* avail[-1], the plane a bias above every plane is clamped to and the
\* plane of the fallback
HighestPlane(avail) == avail[Len(avail)]

\* the loop over adjacent planes: the first i with
\* avail[i] <= vds <= avail[i + 1], 0 when the loop ends without one
BoundingIndex(avail, vds) ==
    LET hits == {i \in 1..(Len(avail) - 1) : avail[i] <= vds /\ vds <= avail[i + 1]}
    IN  IF hits = {} THEN 0 ELSE CHOOSE i \in hits : \A j \in hits : i <= j

\* a blend factor taken over v2 where v2 - v1 is meant
LinearInVdsNoDiff(y1, y2, v1, v2, vds) ==
    LET t == Rat(vds - v1, v2)
    IN  RAdd(y1, RMul(t, RSub(y2, y1)))

\* t = (vds - v1) / (v2 - v1); y1 + t * (y2 - y1)
LinearInVds(y1, y2, v1, v2, vds) ==
    LET t == Rat(vds - v1, v2 - v1)
    IN  RAdd(y1, RMul(t, RSub(y2, y1)))

\* _interp_in_vds
InterpInVds(r, q, g, vds, L) ==
    LET avail == AvailableVds(r, q)
        n == Len(avail)
        i == BoundingIndex(avail, vds)
    IN  IF avail = <<>> THEN Raised("NotBuilt")
        ELSE IF vds \in DOMAIN r[q] THEN Result("ok", "exact", RbfEval(r[q][vds], g, L))
        ELSE IF vds < avail[1]
             THEN Result("ok", "below", RbfEval(r[q][LowestPlane(avail)], g, L))
        ELSE IF vds > avail[n]
             THEN Result("ok", "above", RbfEval(r[q][HighestPlane(avail)], g, L))
        ELSE IF i = 0
             THEN Result("ok", "fallback", RbfEval(r[q][HighestPlane(avail)], g, L))
        ELSE Result("ok", "blend",
                    LinearInVds(RbfEval(r[q][avail[i]], g, L),
                                RbfEval(r[q][avail[i + 1]], g, L),
                                avail[i], avail[i + 1], vds))

\* predict
PredictOut(r, q, g, vds, L) ==
    IF q \notin Quantity THEN Raised("InvalidQuantity")
    ELSE InterpInVds(r, q, g, vds, L)

\* predict_all: the three predictions in the order id_w, gmro, ft; the
\* first one that raises ends the call
PredictAllOut(r, g, vds, L) ==
    LET each == [k \in 1..Len(quantities) |-> PredictOut(r, quantities[k], g, vds, L)]
        bad == {k \in 1..Len(quantities) : each[k].status # "ok"}
    IN  IF bad = {}
        THEN [status |-> "ok", all |-> [k \in 1..Len(quantities) |-> each[k].val]]
        ELSE [status |-> each[CHOOSE k \in bad : \A j \in bad : k <= j].status,
              all |-> <<>>]

-----------------------------------------------------------------------------
(* The length inverter *)

\* min(avail_vds, key=lambda x: abs(x - vds_req)) over the sorted keys of
\* the raw gmro planes: the first plane at the least distance
SnapPlane(planes, vds) ==
    LET avail_vds == SortedInts([i \in 1..Len(planes) |-> planes[i].vds])
        k == CHOOSE i \in 1..Len(avail_vds) :
                 /\ \A j \in 1..Len(avail_vds) :
                       Abs(avail_vds[i] - vds) <= Abs(avail_vds[j] - vds)
                 /\ \A j \in 1..(i - 1) :
                       Abs(avail_vds[i] - vds) < Abs(avail_vds[j] - vds)
    IN  avail_vds[k]

\* df_plane[df_plane["length_nm"] == L], rows kept in table order
RECURSIVE RowsAtLength(_, _)
RowsAtLength(df, L) ==
    IF df = <<>> THEN <<>>
    ELSE IF Head(df).length_nm = R(L) THEN <<Head(df)>> \o RowsAtLength(Tail(df), L)
    ELSE RowsAtLength(Tail(df), L)

\* df_L.sort_values("gm_id"); rows of equal gm_id keep their table order
RECURSIVE InsertByGmId(_, _)
InsertByGmId(s, row) ==
    IF s = <<>> THEN <<row>>
    ELSE IF row.gm_id < s[Len(s)].gm_id
         THEN InsertByGmId(SubSeq(s, 1, Len(s) - 1), row) \o <<s[Len(s)]>>
    ELSE s \o <<row>>

RECURSIVE SortByGmId(_)
SortByGmId(df) ==
    IF df = <<>> THEN <<>>
    ELSE InsertByGmId(SortByGmId(SubSeq(df, 1, Len(df) - 1)), df[Len(df)])

\* np.interp(x, xp, fp) for a non-empty ascending xp: the edge sample
\* outside [xp[0], xp[-1]]; else with j the last index with xp[j] <= x,
\* fp[j] when j is the last index or xp[j] == x, and otherwise the point
\* of the segment from (xp[j], fp[j]) to (xp[j+1], fp[j+1])
NpInterp(x, rows) ==
    LET n == Len(rows)
        j == CHOOSE i \in 1..n :
                 /\ rows[i].gm_id <= x
                 /\ \A k \in (i + 1)..n : rows[k].gm_id > x
    IN  IF x > rows[n].gm_id THEN R(rows[n].value)
        ELSE IF x < rows[1].gm_id THEN R(rows[1].value)
        ELSE IF j = n \/ rows[j].gm_id = x THEN R(rows[j].value)
        ELSE RAdd(RMul(Rat(rows[j + 1].value - rows[j].value,
                           rows[j + 1].gm_id - rows[j].gm_id),
                       R(x - rows[j].gm_id)),
                  R(rows[j].value))

\* the keys of gmro_pred, ascending: the lengths of self.lengths that have
\* at least one row in the snapped plane
LengthsOrdered(df_plane, lens) ==
    SortedInts(SetToSeq({L \in Range(lens) : RowsAtLength(df_plane, L) # <<>>}))

\* gmro_pred[L]
GmroPred(df_plane, g, L) == NpInterp(g, SortByGmId(RowsAtLength(df_plane, L)))

\* (g1 <= gmro_measured <= g2) or (g2 <= gmro_measured <= g1)
Brackets(g1, m, g2) ==
    \/ RLe(g1, R(m)) /\ RLe(R(m), g2)
    \/ RLe(g2, R(m)) /\ RLe(R(m), g1)

\* the values of gmro_pred, in the order of its ascending keys
RECURSIVE GmroPredSeq(_, _, _)
GmroPredSeq(df_plane, g, ord) ==
    IF ord = <<>> THEN <<>>
    ELSE <<GmroPred(df_plane, g, Head(ord))>> \o GmroPredSeq(df_plane, g, Tail(ord))

\* a bracket loop without its break: the last bracketing pair wins
BracketIndexLast(pred, m) ==
    LET hits == {i \in 1..(Len(pred) - 1) : Brackets(pred[i], m, pred[i + 1])}
    IN  IF hits = {} THEN 0 ELSE CHOOSE i \in hits : \A j \in hits : j <= i

\* the bracket loop: the first i whose pair of adjacent reconstructed
\* lengths brackets the measurement, 0 when the loop ends without one
BracketIndex(pred, m) ==
    LET hits == {i \in 1..(Len(pred) - 1) : Brackets(pred[i], m, pred[i + 1])}
    IN  IF hits = {} THEN 0 ELSE CHOOSE i \in hits : \A j \in hits : i <= j

\* an interpolation that adds t * L2 where t * (L2 - L1) is meant
ContinuousEstimateNoDiff(L1, g1, L2, g2, m) ==
    IF g1 = g2 THEN RMul(Rat(1, 2), R(L1 + L2))
    ELSE LET t == RDiv(RSub(R(m), g1), RSub(g2, g1))
         IN  RAdd(R(L1), RMul(t, R(L2)))

\* L_est of a bracket.  abs(g2 - g1) < 1e-12 is g1 = g2 here: two distinct
\* rationals of the model differ by far more than 1e-12
ContinuousEstimate(L1, g1, L2, g2, m) ==
    IF g1 = g2 THEN RMul(Rat(1, 2), R(L1 + L2))
    ELSE LET t == RDiv(RSub(R(m), g1), RSub(g2, g1))
         IN  RAdd(R(L1), RMul(t, R(L2 - L1)))

\* min where max is meant
DiscreteEstimateMin(L1, L2) == IF L2 > L1 THEN L1 ELSE L2

\* L_disc of a bracket: max(L1, L2)
DiscreteEstimate(L1, L2) == IF L2 > L1 THEN L2 ELSE L1

\* a fallback that takes the first reconstructed length
NearestLengthFirst(ord, pred, m) == ord[1]

\* min(lengths_ordered, key=lambda L: abs(gmro_pred[L] - gmro_measured)):
\* the first length at the least distance
NearestLength(ord, pred, m) ==
    LET dist == [i \in 1..Len(ord) |-> RAbs(RSub(pred[i], R(m)))]
        k == CHOOSE i \in 1..Len(ord) :
                 /\ \A j \in 1..Len(ord) : RLe(dist[i], dist[j])
                 /\ \A j \in 1..(i - 1) : RLt(dist[i], dist[j])
    IN  ord[k]

Estimate(status, bracket, est, disc) ==
    [status |-> status, bracket |-> bracket, est |-> est, disc |-> disc]

\* estimate_length_from_gmro; return_continuous only selects what of
\* (L_est, L_disc) is handed back
EstimateOut(d, lens, g, m, vds) ==
    LET df_plane == PlaneTable(d["gmro"], SnapPlane(d["gmro"], vds))
        ord == LengthsOrdered(df_plane, lens.list)
        pred == GmroPredSeq(df_plane, g, ord)
        i == BracketIndex(pred, m)
        near == NearestLength(ord, pred, m)
    IN  IF d["gmro"] = <<>> THEN Estimate("DataError", FALSE, R(0), 0)
        ELSE IF ~lens.computed THEN Estimate("NotBuilt", FALSE, R(0), 0)
        ELSE IF ord = <<>> THEN Estimate("NoData", FALSE, R(0), 0)
        ELSE IF i # 0
             THEN Estimate("ok", TRUE,
                           ContinuousEstimate(ord[i], pred[i], ord[i + 1], pred[i + 1], m),
                           DiscreteEstimate(ord[i], ord[i + 1]))
        ELSE Estimate("ok", FALSE, R(near), near)

-----------------------------------------------------------------------------
(* Calls *)

NoCall ==
    [op |-> "none", q |-> "", gm_id |-> 0, vds |-> 0, x |-> 0, cont |-> FALSE,
     status |-> "", branch |-> "", val |-> R(0), all |-> <<>>,
     bracket |-> FALSE, est |-> R(0), disc |-> 0]

EmptyData == [q \in Quantity |-> <<>>]

EmptyRbf == [q \in Quantity |-> <<>>]

\* _append_data(df, vds, quantity_col, quantity_name), df already reduced
\* to its (gm_id, length_nm, value) rows without missing values
Record(q, vds, df) ==
    /\ nrec < MaxRecords
    /\ data' = AppendData(data, q, vds, df)
    /\ nrec' = nrec + 1
    /\ phase' = IF phase = "unbuilt" THEN "unbuilt" ELSE "stale"
    /\ last' = [NoCall EXCEPT !.op = "record", !.status = "ok"]
    /\ UNCHANGED <<rbf, lengths, everBuilt>>

\* build_interpolators()
Rebuild ==
    LET b == BuildInterpolators(data, lengths)
    IN  /\ rbf' = b.rbf
        /\ lengths' = b.lengths
        /\ phase' = IF phase \in {"built", "rebuilt"} THEN "rebuilt" ELSE "built"
        /\ everBuilt' = (everBuilt \/ b.ok)
        /\ last' = [NoCall EXCEPT !.op = "rebuild",
                                  !.status = IF b.ok THEN "ok" ELSE "FitError"]
        /\ UNCHANGED <<data, nrec>>

\* predict(quantity, gm_id, vds, length_nm)
Predict(q, g, vds, L) ==
    LET out == PredictOut(rbf, q, g, vds, L)
    IN  /\ last' = [NoCall EXCEPT !.op = "predict", !.q = q, !.gm_id = g,
                                  !.vds = vds, !.x = L, !.status = out.status,
                                  !.branch = out.branch, !.val = out.val]
        /\ UNCHANGED <<data, rbf, lengths, phase, everBuilt, nrec>>

\* predict_all(gm_id, vds, length_nm)
PredictAll(g, vds, L) ==
    LET out == PredictAllOut(rbf, g, vds, L)
    IN  /\ last' = [NoCall EXCEPT !.op = "predict_all", !.gm_id = g, !.vds = vds,
                                  !.x = L, !.status = out.status, !.all = out.all]
        /\ UNCHANGED <<data, rbf, lengths, phase, everBuilt, nrec>>

\* an estimate that keeps lengths_ordered in self.lengths
EstimateLengthKeeping(g, m, vds, cont) ==
    LET out == EstimateOut(data, lengths, g, m, vds)
    IN  /\ last' = [NoCall EXCEPT !.op = "estimate", !.gm_id = g, !.vds = vds,
                                  !.x = m, !.cont = cont, !.status = out.status,
                                  !.bracket = out.bracket,
                                  !.est = IF cont THEN out.est ELSE R(0),
                                  !.disc = out.disc]
        /\ lengths' = IF out.status = "ok"
                      THEN [lengths EXCEPT !.list =
                              LengthsOrdered(PlaneTable(data["gmro"],
                                                        SnapPlane(data["gmro"], vds)),
                                             lengths.list)]
                      ELSE lengths
        /\ UNCHANGED <<data, rbf, phase, everBuilt, nrec>>

\* estimate_length_from_gmro(gm_id, gmro_measured, vds, return_continuous)
EstimateLength(g, m, vds, cont) ==
    LET out == EstimateOut(data, lengths, g, m, vds)
    IN  /\ last' = [NoCall EXCEPT !.op = "estimate", !.gm_id = g, !.vds = vds,
                                  !.x = m, !.cont = cont, !.status = out.status,
                                  !.bracket = out.bracket,
                                  !.est = IF cont THEN out.est ELSE R(0),
                                  !.disc = out.disc]
        /\ UNCHANGED <<data, rbf, lengths, phase, everBuilt, nrec>>

-----------------------------------------------------------------------------
(* The engine from construction on: record, rebuild and queries *)

\* three points that can be fitted, on the lengths 500 and 700
TGood == <<Row(20, R(500), 34), Row(10, R(500), 30), Row(10, R(700), 40)>>

\* one point, too few for a fit on its own, on the length 500.5
TShort == <<Row(15, Rat(1001, 2), 50)>>

\* the tables loaded per quantity: the raw gmro rows are the ones the
\* length inverter reads
LoadTables(q) == IF q = "gmro" THEN {TGood, TShort} ELSE {TGood}

LoadVds == {2, 4}

Init ==
    /\ data = EmptyData
    /\ rbf = EmptyRbf
    /\ lengths = NoLengths
    /\ phase = "unbuilt"
    /\ everBuilt = FALSE
    /\ nrec = 0
    /\ last = NoCall

Next ==
    \/ \E q \in Quantity, vds \in LoadVds : \E df \in LoadTables(q) : Record(q, vds, df)
    \/ Rebuild
    \/ \E q \in Quantity \cup {"gds"} : Predict(q, 10, 3, 600)
    \/ PredictAll(10, 3, 600)
    \/ \E cont \in BOOLEAN : EstimateLength(10, 35, 3, cont)

Spec == Init /\ [][Next]_vars

-----------------------------------------------------------------------------
(* A built engine: the state that record calls filling the store d and one
   build_interpolators call leave *)

Planes(d) == Len(d["id_w"]) + Len(d["gmro"]) + Len(d["ft"])

BuiltFrom(d) ==
    LET b == BuildInterpolators(d, NoLengths)
    IN  /\ data = d
        /\ rbf = b.rbf
        /\ lengths = b.lengths
        /\ phase = "built"
        /\ everBuilt = b.ok
        /\ nrec = Planes(d)
        /\ last = NoCall

-----------------------------------------------------------------------------
(* The blender on built stores: predict at every bias around the planes *)

\* the largest bias queried
MaxBias == 9

\* four points that can be fitted, with other values than TGood
TAlt == <<Row(10, R(500), 20), Row(20, R(500), 26), Row(10, R(700), 50),
          Row(20, R(700), 41)>>

BlendVds == <<8, 2, 4>>

\* id_w on any subset of the planes 8, 2 and 4 (recorded in that order),
\* each from TGood or TAlt; gmro on the plane 4; ft never loaded
BlendStores ==
    {[id_w |-> sel, gmro |-> <<[vds |-> 4, df |-> TGood]>>, ft |-> <<>>] :
        sel \in {s \in UNION {[1..n -> [vds : Range(BlendVds), df : {TGood, TAlt}]] : n \in 0..3} :
                    \A i, j \in 1..Len(s) :
                        i < j => \E a, b \in 1..3 :
                                    /\ a < b
                                    /\ BlendVds[a] = s[i].vds
                                    /\ BlendVds[b] = s[j].vds}}

InitBlend == \E d \in BlendStores : BuiltFrom(d)

NextBlend ==
    /\ last.op = "none"
    /\ \E q \in Quantity \cup {"gds"}, g \in {10, 15}, vds \in 1..MaxBias, L \in {500, 600} :
          Predict(q, g, vds, L)

SpecBlend == InitBlend /\ [][NextBlend]_vars

-----------------------------------------------------------------------------
(* The length inverter on built stores *)

\* the rows of one length in a gmro plane: none, or a value from {30, 40}
\* at each of the gm_id 20 and 10 (in that order in the table)
Slices(L) ==
    {<<>>} \cup {<<Row(20, R(L), v20), Row(10, R(L), v10)>> : v10, v20 \in {30, 40}}

\* a row whose length, 600.5, is no integer
FracRows == {<<>>, <<Row(10, Rat(1201, 2), 33)>>}

\* another quantity's plane, with lengths no gmro plane has
TIdw == <<Row(10, R(600), 5), Row(20, R(600), 6), Row(10, R(800), 7)>>

\* gmro on the plane 4 (any profile over the lengths 900, 500 and 700, with
\* or without the fractional row), with or without TGood on the plane 2
\* recorded after it; id_w loaded or not; ft never loaded
InvStores ==
    {[id_w |-> idw,
      gmro |-> <<[vds |-> 4, df |-> s900 \o s500 \o s700 \o frac]>> \o low,
      ft |-> <<>>] :
        s900 \in Slices(900), s500 \in Slices(500), s700 \in Slices(700),
        frac \in FracRows,
        low \in {<<>>, <<[vds |-> 2, df |-> TGood]>>},
        idw \in {<<>>, <<[vds |-> 4, df |-> TIdw]>>}}

InitInv == \E d \in InvStores : BuiltFrom(d)

NextInv ==
    /\ last.op = "none"
    /\ \E g \in {5, 15, 20}, m \in {25, 30, 32, 35, 40, 45}, vds \in {3, 5}, cont \in BOOLEAN :
          EstimateLength(g, m, vds, cont)

SpecInv == InitInv /\ [][NextInv]_vars

-----------------------------------------------------------------------------
(* Properties of the length inverter, on the state an estimate call leaves *)

\* the call returned a length
Returned == last.op = "estimate" /\ last.status = "ok"

\* the snapped plane, its reconstructed lengths and their gmro, for the
\* arguments of the last call
LastPlane == PlaneTable(data["gmro"], SnapPlane(data["gmro"], last.vds))

LastOrd == LengthsOrdered(LastPlane, lengths.list)

LastPred == GmroPredSeq(LastPlane, last.gm_id, LastOrd)

\* the indices i such that m lies between pred[i] and pred[i + 1], ends
\* included, in either direction
BracketSet(pred, m) ==
    {i \in 1..(Len(pred) - 1) :
        \/ RLe(pred[i], m) /\ RLe(m, pred[i + 1])
        \/ RLe(pred[i + 1], m) /\ RLe(m, pred[i])}

Least(S) == CHOOSE i \in S : \A j \in S : i <= j

Max(a, b) == IF a >= b THEN a ELSE b

RDist(a, m) == RAbs(RSub(a, m))

StrictlyMonotonic(pred) ==
    \/ \A i \in 1..(Len(pred) - 1) : RLt(pred[i], pred[i + 1])
    \/ \A i \in 1..(Len(pred) - 1) : RLt(pred[i + 1], pred[i])

\* C1: when some adjacent pair of reconstructed lengths brackets the
\* measurement, the discrete answer is max(L1, L2) of the first such pair
\* in ascending length order, also where L1 is the nearer length; and for
\* (500, 30), (700, 40) and the measurement 35 the call returns (600, 700)
C1_FirstBracketMax ==
    Returned =>
        LET ord == LastOrd
            pred == LastPred
            hits == BracketSet(pred, R(last.x))
            i == Least(hits)
        IN  hits # {} =>
              /\ last.disc = Max(ord[i], ord[i + 1])
              /\ last.disc = ord[i + 1]
              /\ (/\ last.cont
                  /\ ord[i] = 500 /\ pred[i] = R(30)
                  /\ ord[i + 1] = 700 /\ pred[i + 1] = R(40)
                  /\ last.x = 35)
                 => (last.est = R(600) /\ last.disc = 700)

\* the example of C1 happened, with a second bracket behind the first
C1_Witness ==
    /\ Returned /\ last.cont /\ last.x = 35
    /\ LastOrd = <<500, 700, 900>>
    /\ LastPred = <<R(30), R(40), R(30)>>
    /\ last.est = R(600) /\ last.disc = 700

C3_NoBracketNearest ==
    Returned =>
        LET ord == LastOrd
            pred == LastPred
        IN  BracketSet(pred, R(last.x)) = {} =>
              /\ \E k \in 1..Len(ord) :
                    /\ last.disc = ord[k]
                    /\ \A j \in 1..Len(ord) :
                          RLe(RDist(pred[k], R(last.x)), RDist(pred[j], R(last.x)))
              /\ last.cont => last.est = R(last.disc)

\* no bracket among three reconstructed lengths, and the nearest one, which
\* came back, is the last
C3_Witness ==
    /\ Returned /\ last.cont
    /\ LastOrd = <<500, 700, 900>>
    /\ LastPred = <<R(30), R(35), R(40)>>
    /\ last.x = 45
    /\ last.disc = 900 /\ last.est = R(900)

\* C10: a returned continuous estimate is consistent with the discrete
\* one: with a bracket (L1, L2), L1 <= L* <= L2 = discrete, and L* is the
\* midpoint when g1 = g2; without one L* is the discrete answer; and the
\* discrete answer is in self.lengths and has a raw gmro row in the snapped
\* plane
C10_ContinuousConsistent ==
    (Returned /\ last.cont) =>
        LET plane == LastPlane
            ord == LastOrd
            pred == LastPred
            hits == BracketSet(pred, R(last.x))
            i == Least(hits)
        IN  /\ IF hits # {}
               THEN /\ RLe(R(ord[i]), last.est)
                    /\ RLe(last.est, R(ord[i + 1]))
                    /\ last.disc = Max(ord[i], ord[i + 1])
                    /\ RLe(last.est, R(last.disc))
                    /\ pred[i] = pred[i + 1] => last.est = Rat(ord[i] + ord[i + 1], 2)
               ELSE last.est = R(last.disc)
            /\ last.disc \in Range(lengths.list)
            /\ \E k \in 1..Len(plane) : plane[k].length_nm = R(last.disc)

\* a bracket with a continuous estimate strictly inside it, off its midpoint
C10_Witness ==
    /\ Returned /\ last.cont
    /\ LastOrd = <<500, 700, 900>>
    /\ LastPred = <<R(30), R(40), R(40)>>
    /\ last.x = 32
    /\ last.est = R(540) /\ last.disc = 700

-----------------------------------------------------------------------------
(* Properties of the blender, on the state a predict call leaves *)

\* predict was called for a canonical quantity that has built planes
Predicted ==
    /\ last.op = "predict"
    /\ last.q \in Quantity
    /\ DOMAIN rbf[last.q] # {}

\* what predict returns for the last call's quantity and point at bias v
AtBias(v) == PredictOut(rbf, last.q, last.gm_id, v, last.x)

MinPlane(P) == CHOOSE v \in P : \A w \in P : v <= w

MaxPlane(P) == CHOOSE v \in P : \A w \in P : w <= v

\* C4: for a quantity with two or more built planes and a bias inside
\* [min plane, max plane] that is no plane, predict blends (it never takes
\* the max-plane fallback) the adjacent planes v1 < bias < v2: with
\* t = (bias - v1) / (v2 - v1) it returns y1 + t * (y2 - y1), which is
\* (1 - t) * predict(v1) + t * predict(v2) and lies between the two
C4_LinearBlend ==
    Predicted =>
        LET P == DOMAIN rbf[last.q]
            lo == MinPlane(P)
            hi == MaxPlane(P)
            v1 == MaxPlane({v \in P : v < last.vds})
            v2 == MinPlane({v \in P : v > last.vds})
            y1 == AtBias(v1).val
            y2 == AtBias(v2).val
            t == Rat(last.vds - v1, v2 - v1)
        IN  (Cardinality(P) >= 2 /\ lo <= last.vds /\ last.vds <= hi /\ last.vds \notin P) =>
              /\ last.status = "ok"
              /\ last.branch = "blend"
              /\ last.val = RAdd(y1, RMul(t, RSub(y2, y1)))
              /\ last.val = RAdd(RMul(RSub(R(1), t), y1), RMul(t, y2))
              /\ \/ RLe(y1, last.val) /\ RLe(last.val, y2)
                 \/ RLe(y2, last.val) /\ RLe(last.val, y1)

\* a blend between the second and the third of three planes, a quarter of
\* the way, of two different values
C4_Witness ==
    /\ Predicted
    /\ DOMAIN rbf[last.q] = {2, 4, 8}
    /\ last.vds = 5
    /\ last.branch = "blend"
    /\ AtBias(4).val # AtBias(8).val
    /\ last.val = RAdd(RMul(Rat(3, 4), AtBias(4).val), RMul(Rat(1, 4), AtBias(8).val))

\* C5: predict at a bias below the lowest built plane returns what predict
\* at the lowest plane returns, and at a bias above the highest built plane
\* what predict at the highest plane returns
C5_Clamping ==
    Predicted =>
        LET P == DOMAIN rbf[last.q]
            lo == MinPlane(P)
            hi == MaxPlane(P)
        IN  /\ last.vds < lo => (last.status = "ok" /\ last.val = AtBias(lo).val)
            /\ last.vds > hi => (last.status = "ok" /\ last.val = AtBias(hi).val)

\* a bias above the highest of two or more planes, whose values at the
\* point differ, got the highest plane's value
C5_Witness ==
    /\ Predicted
    /\ Cardinality(DOMAIN rbf[last.q]) >= 2
    /\ last.vds > MaxPlane(DOMAIN rbf[last.q])
    /\ last.val = AtBias(MaxPlane(DOMAIN rbf[last.q])).val
    /\ last.val # AtBias(MinPlane(DOMAIN rbf[last.q])).val

-----------------------------------------------------------------------------
(* Properties of the engine's life: record, rebuild, queries *)

QueryOps == {"predict", "predict_all", "estimate"}

\* the queries the behaviours make give the same answers in the state
\* before and the state after a step
SameAnswers ==
    /\ \A q \in Quantity \cup {"gds"}, vds \in {2, 3, 4} :
          PredictOut(rbf', q, 10, vds, 600) = PredictOut(rbf, q, 10, vds, 600)
    /\ PredictAllOut(rbf', 10, 3, 600) = PredictAllOut(rbf, 10, 3, 600)
    /\ EstimateOut(data', lengths', 10, 35, 3) = EstimateOut(data, lengths, 10, 35, 3)

\* C6: a build call that follows a build call with no record between them
\* leaves every interpolant and self.lengths as they were, and every query
\* answers as before it
C6_RebuildIdempotent ==
    [][(phase \in {"built", "rebuilt"} /\ last'.op = "rebuild")
          => (rbf' = rbf /\ lengths' = lengths /\ SameAnswers)]_vars

\* a second build call in a row returned, on a store with planes of two
\* quantities and a computed list of lengths
C6_Witness ==
    /\ phase = "rebuilt" /\ last.op = "rebuild" /\ last.status = "ok"
    /\ lengths.computed
    /\ DOMAIN rbf["id_w"] # {} /\ DOMAIN rbf["gmro"] # {}

\* the answer the call l recorded is the answer the same call gives on
\* the interpolants r, the tables d and the lengths lens
Repeats(l, r, d, lens) ==
    /\ l.op = "predict" =>
          PredictOut(r, l.q, l.gm_id, l.vds, l.x) = Result(l.status, l.branch, l.val)
    /\ l.op = "predict_all" =>
          PredictAllOut(r, l.gm_id, l.vds, l.x) = [status |-> l.status, all |-> l.all]
    /\ l.op = "estimate" =>
          LET out == EstimateOut(d, lens, l.gm_id, l.x, l.vds)
          IN  /\ out.status = l.status
              /\ out.bracket = l.bracket
              /\ out.disc = l.disc
              /\ l.cont => out.est = l.est

\* C7: a predict, predict_all or estimate call, returning or raising,
\* leaves every table, every interpolant and self.lengths unchanged, and
\* the same call in the state it leaves gives the same answer
C7_QueriesPure ==
    [][last'.op \in QueryOps
          => (UNCHANGED <<data, rbf, lengths>> /\ Repeats(last', rbf', data', lengths'))]_vars

\* predict_all returned the three values
C7_Witness ==
    /\ last.op = "predict_all" /\ last.status = "ok"
    /\ Len(last.all) = 3

\* C8: before any build call has returned, predict for a canonical
\* quantity raises NotBuilt, predict_all raises, and estimate raises
\* DataError without gmro data and NotBuilt with it
C8_QueryBeforeBuildFails ==
    ~everBuilt =>
        /\ (last.op = "predict" /\ last.q \in Quantity) => last.status = "NotBuilt"
        /\ last.op = "predict_all" => last.status = "NotBuilt"
        /\ last.op = "estimate" =>
              last.status = IF data["gmro"] = <<>> THEN "DataError" ELSE "NotBuilt"

\* the distinct length_nm values of all rows of all planes of all quantities
AllLengthValues ==
    UNION {UNION {{data[q][i].df[j].length_nm : j \in 1..Len(data[q][i].df)} :
                  i \in 1..Len(data[q])} :
           q \in Quantity}

\* the planes with a fitted interpolant are the planes with a table, each
\* interpolant is fitted from its plane's whole table, and self.lengths is
\* the ascending list, without repeats, of all length_nm values
BuiltMatchesData ==
    /\ \A q \in Quantity :
          /\ DOMAIN rbf[q] = PlaneKeys(data[q])
          /\ \A v \in DOMAIN rbf[q] : rbf[q][v] = PlaneTable(data[q], v)
    /\ \A i, j \in 1..Len(lengths.list) : i < j => lengths.list[i] < lengths.list[j]
    /\ {R(lengths.list[i]) : i \in 1..Len(lengths.list)} = AllLengthValues

\* the step appended the rows of one table to one plane's table (a new
\* plane's table being empty before) and left every other table alone
RecordAppends ==
    \E q \in Quantity, v \in LoadVds :
        \E df \in LoadTables(q) :
            /\ \A p \in Quantity \ {q} : data'[p] = data[p]
            /\ PlaneKeys(data'[q]) = PlaneKeys(data[q]) \cup {v}
            /\ \A w \in PlaneKeys(data[q]) \ {v} :
                  PlaneTable(data'[q], w) = PlaneTable(data[q], w)
            /\ PlaneTable(data'[q], v)
                  = (IF v \in PlaneKeys(data[q]) THEN PlaneTable(data[q], v) ELSE <<>>) \o df

\* C9: a record call appends its rows to the plane's table, and in the
\* state a returned build call leaves, the fitted planes are exactly the
\* recorded planes, each fitted from its whole table, and self.lengths is
\* the ascending duplicate-free union of all length_nm values
C9_BuildMatchesData ==
    [][/\ last'.op = "record" => RecordAppends
       /\ (last'.op = "rebuild" /\ last'.status = "ok") => BuiltMatchesData']_vars

=============================================================================
